---- MODULE Spec2Model ----
(***************************************************************************)
(* Model of the web-scraping core of mcp-example:                          *)
(*   - RateLimiter (src/web-scraping-mcp/web_utils.py), a per-domain       *)
(*     sliding window of request timestamps;                               *)
(*   - WebScraper.fetch_url / WebScraper.batch_fetch_urls                   *)
(*     (src/web-scraping-mcp/web_scraper.py).                              *)
(* Time is counted in whole seconds; time.time() is the variable now.      *)
(***************************************************************************)
EXTENDS Integers, Sequences, FiniteSets, TLC

VARIABLES
    max_requests,   \* RateLimiter.max_requests
    time_window,    \* RateLimiter.time_window
    requests,       \* RateLimiter.requests: domain -> sequence of timestamps
    now,            \* the clock read by time.time()
    last,           \* the most recent RateLimiter call: arguments, result, state before
    calls,          \* per domain, the (time, result) of every can_make_request so far
    wait_seen,      \* per domain, since d's last admission: <<last get_wait_time result, denied since?>>
    pc,             \* position of the batch_fetch_urls coroutine
    urls,           \* argument of the running batch_fetch_urls
    domain_groups,  \* its local domain_groups, in insertion order
    gi,             \* index of the domain group being processed
    ui,             \* index of the url inside that group
    results,        \* its local results
    returned,       \* the value of the last completed batch_fetch_urls
    fetched,        \* the arguments of its fetch_url calls, in call order
    fetch_starts,   \* the time at which each of these fetch_url calls began
    admission_checks, \* can_make_request calls made by the running / last batch
    in_flight,      \* fetch_url calls of the batch that began and have not returned
    pending,        \* the fetch_url call suspended at await self.session.get(url)
    limiter_calls,  \* RateLimiter calls made by the running / last batch
    http_gets,      \* session.get calls made by the running / last batch
    sleeps,         \* asyncio.sleep calls made by the running / last batch
    threads,        \* per thread inside can_make_request: position and locals
    dispatched,     \* the last fetch_url call made on its own: url, response, outcome
    served,         \* every fetch_url call so far, over all scrapers: domain, time, admitted
    tool_result,    \* what the last MCP tool call returned to its caller
    tasks,          \* per asyncio task running fetch_url: position and locals
    hume            \* AudioProcessor.detect_emotions: position, polls, pauses, result

limiter_vars == <<max_requests, time_window, requests, now>>
history_vars == <<last, calls, wait_seen>>
batch_vars == <<pc, urls, domain_groups, gi, ui, results, returned,
                fetched, fetch_starts, admission_checks, in_flight, pending,
                limiter_calls, http_gets, sleeps>>
thread_vars == <<threads, dispatched>>
server_vars == <<served, tool_result, tasks, hume>>
vars == <<limiter_vars, history_vars, batch_vars, thread_vars, server_vars>>

----------------------------------------------------------------------------
(* Bounds of the model *)

MaxRequests == 2    \* largest max_requests a RateLimiter is built with
MaxTime == 3        \* the clock stops advancing here
MaxCalls == 4       \* can_make_request calls recorded in the history
MaxBatch == 3       \* longest url list given to batch_fetch_urls

Domains == {"a.com", "b.com"}   \* the domains the limiter is asked about
Windows == {2, 3}               \* the time_window values a RateLimiter is built with

NoWait == <<>>          \* wait_seen: no get_wait_time since the last admission
\* returned: no batch has completed yet, the batch ended with an exception,
\* the batch returned the list v
NoReturn == [kind |-> "none", value |-> <<>>]
Raised == [kind |-> "raised", value |-> <<>>]
Returned(v) == [kind |-> "returned", value |-> v]

----------------------------------------------------------------------------
(* Helpers: Python's min, max, len over sequences *)

Elems(s) == {s[i] : i \in 1..Len(s)}

Min(s) == CHOOSE m \in Elems(s) : \A x \in Elems(s) : m <= x

Max2(a, b) == IF a >= b THEN a ELSE b

SeqSum(f) ==
    LET D == DOMAIN f
        RECURSIVE Sum(_)
        Sum(S) == IF S = {} THEN 0
                  ELSE LET x == CHOOSE y \in S : TRUE
                       IN Len(f[x]) + Sum(S \ {x})
    IN Sum(D)

----------------------------------------------------------------------------
(* RateLimiter *)

\* self.requests[domain] once the entry exists; the empty list otherwise
Entry(reqs, d) == IF d \in DOMAIN reqs THEN reqs[d] ELSE <<>>

\* mutant of InWindow: the window test with <= instead of <
InWindowInclusive(t, req_time) == t - req_time <= time_window

\* mutant of InWindow: nothing is ever pruned
InWindowAlways(t, req_time) == TRUE

\* mutant of InWindow: a timestamp is dropped one second early
InWindowShort(t, req_time) == t - req_time < time_window - 1

\* the filter of the list comprehension: current_time - req_time < self.time_window
InWindow(t, req_time) == t - req_time < time_window

\* the list comprehension that drops requests outside the time window
Prune(s, t) == SelectSeq(s, LAMBDA req_time : InWindow(t, req_time))

\* mutant of Admits: one request too many
AdmitsOneMore(pruned) == Len(pruned) <= max_requests

\* len(self.requests[domain]) < self.max_requests
Admits(pruned) == Len(pruned) < max_requests

\* the value returned by can_make_request(d) at time t
CanMakeRequestResult(reqs, d, t) == Admits(Prune(Entry(reqs, d), t))

\* mutant of RequestsAfterCanMakeRequest: a denied call is recorded too
RequestsAfterAlwaysRecord(reqs, d, t) ==
    [x \in DOMAIN reqs \cup {d} |->
        IF x = d THEN Append(Prune(Entry(reqs, d), t), t) ELSE reqs[x]]

\* mutant of RequestsAfterCanMakeRequest: the prune runs over every domain
RequestsAfterPruneAll(reqs, d, t) ==
    [x \in DOMAIN reqs \cup {d} |->
        IF x = d
        THEN IF Admits(Prune(Entry(reqs, d), t))
             THEN Append(Prune(Entry(reqs, d), t), t)
             ELSE Prune(Entry(reqs, d), t)
        ELSE Prune(reqs[x], t)]

\* self.requests after can_make_request(d) at time t: the entry is created,
\* pruned and, when the request is admitted, extended by t
RequestsAfterCanMakeRequest(reqs, d, t) ==
    LET pruned == Prune(Entry(reqs, d), t)
    IN [x \in DOMAIN reqs \cup {d} |->
          IF x = d
          THEN IF Admits(pruned) THEN Append(pruned, t) ELSE pruned
          ELSE reqs[x]]

\* mutant of GetWaitTime: measured from the newest request
GetWaitTimeNewest(reqs, d, t) ==
    IF d \notin DOMAIN reqs \/ reqs[d] = <<>>
    THEN 0
    ELSE Max2(0, time_window - (t - reqs[d][Len(reqs[d])]))

\* mutant of GetWaitTime: a domain without history waits a whole window
GetWaitTimeNoHistory(reqs, d, t) ==
    IF d \notin DOMAIN reqs \/ reqs[d] = <<>>
    THEN time_window
    ELSE Max2(0, time_window - (t - Min(reqs[d])))

\* mutant of GetWaitTime: the wait is counted from the current time
GetWaitTimeGrowing(reqs, d, t) ==
    IF d \notin DOMAIN reqs \/ reqs[d] = <<>>
    THEN 0
    ELSE Max2(0, time_window - (Min(reqs[d]) - t))

\* the value returned by get_wait_time(d) at time t
GetWaitTime(reqs, d, t) ==
    IF d \notin DOMAIN reqs \/ reqs[d] = <<>>
    THEN 0
    ELSE Max2(0, time_window - (t - Min(reqs[d])))

\* mutant of RequestsAfterGetWaitTime: get_wait_time prunes like can_make_request
RequestsAfterGetWaitTimePruning(reqs, d, t) ==
    [x \in DOMAIN reqs \cup {d} |->
        IF x = d THEN Prune(Entry(reqs, d), t) ELSE reqs[x]]

\* self.requests after get_wait_time(d): the method assigns nothing
RequestsAfterGetWaitTime(reqs, d, t) == reqs

----------------------------------------------------------------------------
(* State after construction *)

NoCall == [op |-> "none", domain |-> "", t |-> 0, result |-> 0,
           before |-> <<>>, prev |-> NoWait]

BatchIdle ==
    /\ pc = "idle"
    /\ urls = <<>>
    /\ domain_groups = <<>>
    /\ gi = 1
    /\ ui = 1
    /\ results = <<>>
    /\ returned = NoReturn
    /\ fetched = <<>>
    /\ fetch_starts = <<>>
    /\ admission_checks = 0
    /\ in_flight = 0
    /\ pending = <<>>
    /\ limiter_calls = 0
    /\ http_gets = 0
    /\ sleeps = 0

\* the threads that may call the limiter, none of them inside a call, and no
\* fetch_url call made on its own yet
Threads == {1, 2}
NoLocals == [pc |-> "idle", domain |-> "", current_time |-> 0, pruned |-> <<>>]
NoDispatch == [url |-> <<>>, resp |-> <<>>, out |-> <<>>, got |-> FALSE,
               before |-> <<>>]
ThreadsIdle ==
    /\ threads = [t \in Threads |-> NoLocals]
    /\ dispatched = NoDispatch

\* no fetch_url call made, no tool called, no task started, detect_emotions
\* not running
NoToolResult == [tool |-> "none", urls |-> <<>>, results |-> <<>>,
                 response |-> [kind |-> "none"]]
NoTasks == <<>>
HumeIdle == [pc |-> "idle", attempt |-> 0, polls |-> 0, pauses |-> 0,
             answer |-> "none", result |-> "none"]
ServerIdle ==
    /\ served = <<>>
    /\ tool_result = NoToolResult
    /\ tasks = NoTasks
    /\ hume = HumeIdle

\* RateLimiter.__init__ with any max_requests >= 0 and time_window
Init ==
    /\ max_requests \in 0..MaxRequests
    /\ time_window \in Windows
    /\ requests = <<>>
    /\ now = 0
    /\ last = NoCall
    /\ calls = [d \in Domains |-> <<>>]
    /\ wait_seen = [d \in Domains |-> NoWait]
    /\ BatchIdle
    /\ ThreadsIdle
    /\ ServerIdle

----------------------------------------------------------------------------
(* Operations of the RateLimiter, called directly by a single caller *)

\* time passes
Tick ==
    /\ now < MaxTime
    /\ now' = now + 1
    /\ UNCHANGED <<server_vars, thread_vars, max_requests, time_window, requests,
                   history_vars, batch_vars>>

\* RateLimiter.can_make_request(d)
CanMakeRequest(d) ==
    /\ SeqSum(calls) < MaxCalls
    /\ LET r == CanMakeRequestResult(requests, d, now)
       IN /\ requests' = RequestsAfterCanMakeRequest(requests, d, now)
          /\ last' = [op |-> "can_make_request", domain |-> d, t |-> now,
                      result |-> r, before |-> requests, prev |-> NoWait]
          /\ calls' = [calls EXCEPT ![d] = Append(@, [t |-> now, r |-> r])]
          /\ wait_seen' = [wait_seen EXCEPT ![d] =
                              IF r \/ @ = NoWait THEN NoWait ELSE <<@[1], TRUE>>]
    /\ UNCHANGED <<server_vars, thread_vars, max_requests, time_window, now, batch_vars>>

\* RateLimiter.get_wait_time(d)
GetWaitTimeCall(d) ==
    /\ LET r == GetWaitTime(requests, d, now)
       IN /\ requests' = RequestsAfterGetWaitTime(requests, d, now)
          /\ last' = [op |-> "get_wait_time", domain |-> d, t |-> now,
                      result |-> r, before |-> requests, prev |-> wait_seen[d]]
          /\ wait_seen' = [wait_seen EXCEPT ![d] = <<r, FALSE>>]
    /\ UNCHANGED <<server_vars, thread_vars, max_requests, time_window, now, calls, batch_vars>>

Next ==
    \/ Tick
    \/ \E d \in Domains : CanMakeRequest(d)
    \/ \E d \in Domains : GetWaitTimeCall(d)

Spec == Init /\ [][Next]_vars

\* RateLimiter.__init__ with a max_requests that leaves no capacity
InitZero ==
    /\ max_requests \in -1..0
    /\ time_window \in Windows
    /\ requests = <<>>
    /\ now = 0
    /\ last = NoCall
    /\ calls = [d \in Domains |-> <<>>]
    /\ wait_seen = [d \in Domains |-> NoWait]
    /\ BatchIdle
    /\ ThreadsIdle
    /\ ServerIdle

SpecZero == InitZero /\ [][Next]_vars

----------------------------------------------------------------------------
(* WebUtils: URLs are sequences of tokens, e.g. <<"http", ":", "//", "a.com", "/1">> *)

Schemes == {"http"}
Hosts == {"a.com", "b.com", "pdf.com"}

\* the URLs given to fetch_url and batch_fetch_urls
ValidUrls == {<<"http", ":", "//", "a.com", "/1">>,
              <<"http", ":", "//", "a.com", "/2">>,
              <<"http", ":", "//", "b.com", "/1">>}
MalformedUrls == {<<"a.com", "/1">>,        \* no scheme, no network location
                  <<"//", "b.com", "/2">>}  \* network location without a scheme
Urls == ValidUrls \cup MalformedUrls

\* urllib.parse.urlparse: the scheme is what precedes ":", the network location
\* is what follows a leading "//" of the rest
urlparse(url) ==
    LET has_scheme == Len(url) >= 2 /\ url[1] \in Schemes /\ url[2] = ":"
        rest == IF has_scheme THEN SubSeq(url, 3, Len(url)) ELSE url
        has_netloc == Len(rest) >= 2 /\ rest[1] = "//" /\ rest[2] \in Hosts
    IN [scheme |-> IF has_scheme THEN url[1] ELSE "",
        netloc |-> IF has_netloc THEN rest[2] ELSE ""]

\* mutant of is_valid_url: any() in place of all()
is_valid_url_any(url) == urlparse(url).scheme # "" \/ urlparse(url).netloc # ""

\* WebUtils.is_valid_url
is_valid_url(url) == urlparse(url).scheme # "" /\ urlparse(url).netloc # ""

\* WebUtils.extract_domain
extract_domain(url) == urlparse(url).netloc

\* str.lower, token by token
LowerToken(tok) ==
    CASE tok = "PDF" -> "pdf"
      [] tok = "/X.PDF" -> "/x.pdf"
      [] tok = "Application" -> "application"
      [] OTHER -> tok
lower(s) == [i \in 1..Len(s) |-> LowerToken(s[i])]

\* the tokens that contain the substring "pdf"
PdfTokens == {"pdf", "/x.pdf", "pdf.com"}

\* mutant of is_pdf_url: url.lower().endswith('.pdf') alone
is_pdf_url_suffix(url) == url # <<>> /\ lower(url)[Len(url)] = "/x.pdf"

\* WebUtils.is_pdf_url: 'pdf' in url.lower()
is_pdf_url(url) == \E i \in 1..Len(url) : lower(url)[i] \in PdfTokens

----------------------------------------------------------------------------
(* WebScraper.fetch_url *)

TimeWindowScraper == 60     \* RateLimiter(max_requests_per_domain, 60)
SleepDelay == 1             \* asyncio.sleep(1)

\* what session.get and the processing of its response can do: raise an
\* httpx.HTTPError, raise another exception, or deliver a content type
\* (a sequence of tokens) that is processed with or without an exception
HtmlType == <<"text", "/", "html">>
PdfType == <<"application", "/", "pdf">>
ImageType == <<"image", "/", "png">>
PlainType == <<"text", "/", "plain">>
UpperPdfType == <<"Application", "/", "PDF">>
ContentTypes == {HtmlType, PdfType, ImageType, PlainType, UpperPdfType, <<>>}
Responses ==
    {[outcome |-> o, content_type |-> <<>>, processed |-> TRUE] :
        o \in {"http_error", "exception"}}
    \cup {[outcome |-> "ok", content_type |-> c, processed |-> p] :
            c \in ContentTypes, p \in BOOLEAN}

\* the responses the batch specification draws from
BatchResponses ==
    {[outcome |-> "ok", content_type |-> HtmlType, processed |-> TRUE],
     [outcome |-> "http_error", content_type |-> <<>>, processed |-> TRUE],
     [outcome |-> "exception", content_type |-> <<>>, processed |-> TRUE]}

Returns(v) == [raised |-> FALSE, value |-> v]

\* _process_html_response / _process_pdf_response: a success record, or the
\* processing error of the method's own except clause
Process(kind, url, resp) ==
    IF resp.processed
    THEN [status |-> "success", url |-> url, domain |-> extract_domain(url),
          content_type |-> kind]
    ELSE [error |-> IF kind = "html" THEN "HTML processing error"
                    ELSE "PDF processing error"]

\* mutant of HandleResponse: no except clause for exceptions other than HTTPError
HandleResponsePropagating(url, resp) ==
    IF resp.outcome = "http_error" THEN Returns([error |-> "HTTP error"])
    ELSE IF resp.outcome = "exception" THEN [raised |-> TRUE, value |-> <<>>]
    ELSE Returns(Process("html", url, resp))

\* mutant of HandleResponse: the dispatch looks at the content type only
HandleResponseByTypeOnly(url, resp) ==
    LET content_type == lower(resp.content_type)
    IN IF resp.outcome = "http_error" THEN Returns([error |-> "HTTP error"])
       ELSE IF resp.outcome = "exception" THEN Returns([error |-> "Fetch error"])
       ELSE IF "pdf" \in Elems(content_type)
            THEN Returns(Process("pdf", url, resp))
       ELSE IF "html" \in Elems(content_type) \/ "text" \in Elems(content_type)
            THEN Returns(Process("html", url, resp))
       ELSE Returns([error |-> "Unsupported content type",
                     content_type |-> content_type])

\* the try block of fetch_url, from session.get to the except clauses;
\* content_type = response.headers.get('content-type', '').lower()
HandleResponse(url, resp) ==
    LET content_type == lower(resp.content_type)
    IN IF resp.outcome = "http_error" THEN Returns([error |-> "HTTP error"])
       ELSE IF resp.outcome = "exception" THEN Returns([error |-> "Fetch error"])
       ELSE IF "pdf" \in Elems(content_type) \/ is_pdf_url(url)
            THEN Returns(Process("pdf", url, resp))
       ELSE IF "html" \in Elems(content_type) \/ "text" \in Elems(content_type)
            THEN Returns(Process("html", url, resp))
       ELSE Returns([error |-> "Unsupported content type",
                     content_type |-> content_type])

\* mutant of FetchUrl: a denied request is sent all the same
FetchUrlNoShortCircuit(reqs, url, t, resp) ==
    IF ~is_valid_url(url)
    THEN [out |-> Returns([error |-> "Invalid URL format"]),
          requests |-> reqs, limiter_calls |-> 0, checks |-> 0, http_gets |-> 0]
    ELSE [out |-> HandleResponse(url, resp),
          requests |-> RequestsAfterCanMakeRequest(reqs, extract_domain(url), t),
          limiter_calls |-> 1, checks |-> 1, http_gets |-> 1]

\* mutant of FetchUrl: a denied request asks the limiter a second time
FetchUrlRetrying(reqs, url, t, resp) ==
    IF ~is_valid_url(url)
    THEN [out |-> Returns([error |-> "Invalid URL format"]),
          requests |-> reqs, limiter_calls |-> 0, checks |-> 0, http_gets |-> 0]
    ELSE LET domain == extract_domain(url)
             after == RequestsAfterCanMakeRequest(reqs, domain, t)
         IN IF ~CanMakeRequestResult(reqs, domain, t)
            THEN [out |-> Returns([error |-> "Rate limited",
                                    wait |-> GetWaitTime(after, domain, t)]),
                  requests |-> RequestsAfterCanMakeRequest(after, domain, t),
                  limiter_calls |-> 3, checks |-> 2, http_gets |-> 0]
            ELSE [out |-> HandleResponse(url, resp),
                  requests |-> after, limiter_calls |-> 1, checks |-> 1,
                  http_gets |-> 1]

\* mutant of FetchUrl: the timestamp of a request that failed is taken back
FetchUrlRecordOnSuccess(reqs, url, t, resp) ==
    IF ~is_valid_url(url)
    THEN [out |-> Returns([error |-> "Invalid URL format"]),
          requests |-> reqs, limiter_calls |-> 0, checks |-> 0, http_gets |-> 0]
    ELSE LET domain == extract_domain(url)
             after == RequestsAfterCanMakeRequest(reqs, domain, t)
         IN IF ~CanMakeRequestResult(reqs, domain, t)
            THEN [out |-> Returns([error |-> "Rate limited",
                                    wait |-> GetWaitTime(after, domain, t)]),
                  requests |-> RequestsAfterGetWaitTime(after, domain, t),
                  limiter_calls |-> 2, checks |-> 1, http_gets |-> 0]
            ELSE [out |-> HandleResponse(url, resp),
                  requests |-> IF "error" \in DOMAIN HandleResponse(url, resp).value
                               THEN [after EXCEPT ![domain] =
                                        SubSeq(@, 1, Len(@) - 1)]
                               ELSE after,
                  limiter_calls |-> 1, checks |-> 1, http_gets |-> 1]

\* fetch_url(url) at time t with limiter state reqs, the server answering resp:
\* the outcome, the limiter state left behind, and the calls made (to the
\* limiter, to can_make_request, to session.get)
FetchUrl(reqs, url, t, resp) ==
    IF ~is_valid_url(url)
    THEN [out |-> Returns([error |-> "Invalid URL format"]),
          requests |-> reqs, limiter_calls |-> 0, checks |-> 0, http_gets |-> 0]
    ELSE LET domain == extract_domain(url)
             after == RequestsAfterCanMakeRequest(reqs, domain, t)
         IN IF ~CanMakeRequestResult(reqs, domain, t)
            THEN [out |-> Returns([error |-> "Rate limited",
                                    wait |-> GetWaitTime(after, domain, t)]),
                  requests |-> RequestsAfterGetWaitTime(after, domain, t),
                  limiter_calls |-> 2, checks |-> 1, http_gets |-> 0]
            ELSE [out |-> HandleResponse(url, resp),
                  requests |-> after, limiter_calls |-> 1, checks |-> 1,
                  http_gets |-> 1]

----------------------------------------------------------------------------
(* WebScraper.batch_fetch_urls *)

\* one iteration of the grouping loop: domain_groups[domain].append(url),
\* the group being created, at the end, when the domain is new
AddUrl(groups, url) ==
    LET d == extract_domain(url)
    IN IF \E i \in 1..Len(groups) : groups[i].domain = d
       THEN LET i == CHOOSE j \in 1..Len(groups) : groups[j].domain = d
            IN [groups EXCEPT ![i].urls = Append(@, url)]
       ELSE Append(groups, [domain |-> d, urls |-> <<url>>])

RECURSIVE GroupInto(_, _)
GroupInto(groups, us) ==
    IF us = <<>> THEN groups ELSE GroupInto(AddUrl(groups, Head(us)), Tail(us))

\* mutant of GroupByDomain: every url opens a group of its own
GroupByDomainUngrouped(us) ==
    [i \in 1..Len(us) |-> [domain |-> extract_domain(us[i]), urls |-> <<us[i]>>]]

\* mutant of GroupByDomain: the dict starts with a group for the empty url
GroupByDomainSeeded(us) ==
    GroupInto(<<[domain |-> "", urls |-> << <<>> >>]>>, us)

\* the dict domain_groups built from urls, in insertion order
GroupByDomain(us) == GroupInto(<<>>, us)

\* the url the nested loops are at
CurrentUrl == domain_groups[gi].urls[ui]

\* the nested loops are at their last url
LastUrl == gi = Len(domain_groups) /\ ui = Len(domain_groups[gi].urls)

Seqs(S, n) == UNION {[1..k -> S] : k \in 0..n}

\* WebScraper.__init__: the limiter of a scraper has a window of 60 seconds.
\* The scraper serves one batch_fetch_urls call: the server's tool builds a new
\* WebScraper for every call.
InitBatch ==
    /\ max_requests \in 0..MaxRequests
    /\ time_window = TimeWindowScraper
    /\ requests = <<>>
    /\ now = 0
    /\ last = NoCall
    /\ calls = [d \in Domains |-> <<>>]
    /\ wait_seen = [d \in Domains |-> NoWait]
    /\ BatchIdle
    /\ ThreadsIdle
    /\ ServerIdle

\* batch_fetch_urls(us) is called: the urls are grouped; an empty list returns
\* at once, without reaching an await
BatchStart(us) ==
    /\ pc = "idle"
    /\ urls' = us
    /\ domain_groups' = GroupByDomain(us)
    /\ gi' = 1
    /\ ui' = 1
    /\ results' = <<>>
    /\ fetched' = <<>>
    /\ fetch_starts' = <<>>
    /\ admission_checks' = 0
    /\ limiter_calls' = 0
    /\ http_gets' = 0
    /\ sleeps' = 0
    /\ IF domain_groups' = <<>>
       THEN pc' = "done" /\ returned' = Returned(results')
       ELSE pc' = "fetch" /\ returned' = NoReturn
    /\ UNCHANGED <<server_vars, thread_vars, limiter_vars, history_vars, in_flight, pending>>

\* result = await self.fetch_url(url); results.append(result)
BatchFetch(resp) ==
    /\ pc = "fetch"
    /\ LET f == FetchUrl(requests, CurrentUrl, now, resp)
       IN /\ requests' = f.requests
          /\ fetched' = Append(fetched, CurrentUrl)
          /\ fetch_starts' = Append(fetch_starts, now)
          /\ admission_checks' = admission_checks + f.checks
          /\ limiter_calls' = limiter_calls + f.limiter_calls
          /\ http_gets' = http_gets + f.http_gets
          /\ IF f.out.raised
             THEN /\ pc' = "done"
                  /\ returned' = Raised
                  /\ results' = results
             ELSE /\ pc' = "sleep"
                  /\ returned' = returned
                  /\ results' = Append(results, f.out.value)
    /\ UNCHANGED <<server_vars, thread_vars, max_requests, time_window, now, history_vars,
                   urls, domain_groups, gi, ui, sleeps, in_flight, pending>>

\* mutant of DelayAfter: no delay once the last url has been fetched
DelayAfterBetweenOnly(result, is_last) == IF is_last THEN 0 ELSE SleepDelay

\* mutant of DelayAfter: no delay after an error result
DelayAfterSuccessOnly(result, is_last) ==
    IF "error" \in DOMAIN result THEN 0 ELSE SleepDelay

\* the delay awaited after a result has been appended: asyncio.sleep(1),
\* whatever the result and the position in the batch
DelayAfter(result, is_last) == SleepDelay

\* await asyncio.sleep(1), then the next url of the group, the next group, or
\* return results
BatchSleep ==
    /\ pc = "sleep"
    /\ LET delay == DelayAfter(results[Len(results)], LastUrl)
       IN /\ now' = now + delay
          /\ sleeps' = sleeps + (IF delay > 0 THEN 1 ELSE 0)
    /\ IF LastUrl
       THEN pc' = "done" /\ returned' = Returned(results) /\ gi' = gi /\ ui' = ui
       ELSE /\ pc' = "fetch"
            /\ returned' = returned
            /\ IF ui < Len(domain_groups[gi].urls)
               THEN gi' = gi /\ ui' = ui + 1
               ELSE gi' = gi + 1 /\ ui' = 1
    /\ UNCHANGED <<server_vars, thread_vars, max_requests, time_window, requests, history_vars,
                   urls, domain_groups, results, fetched, fetch_starts,
                   admission_checks, in_flight, pending, limiter_calls, http_gets>>

\* The clock advances by the sleeps alone: nothing a batch decides depends on
\* how long a fetch takes (no timestamp leaves the 60 second window meanwhile).
NextBatch ==
    \/ \E us \in Seqs(Urls, MaxBatch) : BatchStart(us)
    \/ \E resp \in BatchResponses : BatchFetch(resp)
    \/ BatchSleep

SpecBatch == InitBatch /\ [][NextBatch]_vars

----------------------------------------------------------------------------
(* batch_fetch_urls with the await points of fetch_url: a fetch_url call that
   is admitted is suspended at await self.session.get(url) until the response
   arrives, and time passes meanwhile *)

\* the urls and responses this specification draws from
SeqUrls == {<<"http", ":", "//", "a.com", "/1">>,
            <<"http", ":", "//", "a.com", "/2">>,
            <<"http", ":", "//", "b.com", "/1">>,
            <<"a.com", "/1">>}
SeqResponses ==
    {[outcome |-> "ok", content_type |-> HtmlType, processed |-> TRUE],
     [outcome |-> "http_error", content_type |-> <<>>, processed |-> TRUE]}

\* no response yet: session.get has not been reached or has not returned
NoResponse == [outcome |-> "none", content_type |-> <<>>, processed |-> TRUE]

\* mutant of AfterGet: the batch does not wait for the fetch it started
AfterGetDetached == "fetch"

\* where batch_fetch_urls stands once fetch_url has reached session.get:
\* suspended in await self.fetch_url(url)
AfterGet == "awaiting"

\* result = await self.fetch_url(url), up to the first await of fetch_url: an
\* invalid or rate limited url returns at once and its result is appended; an
\* admitted one is recorded by the limiter and waits for the response
FetchBegin ==
    /\ pc = "fetch"
    /\ LET f == FetchUrl(requests, CurrentUrl, now, NoResponse)
       IN /\ requests' = f.requests
          /\ fetched' = Append(fetched, CurrentUrl)
          /\ fetch_starts' = Append(fetch_starts, now)
          /\ admission_checks' = admission_checks + f.checks
          /\ limiter_calls' = limiter_calls + f.limiter_calls
          /\ http_gets' = http_gets + f.http_gets
          /\ IF f.http_gets = 0
             THEN /\ pc' = "sleep"
                  /\ results' = Append(results, f.out.value)
                  /\ UNCHANGED <<in_flight, pending>>
             ELSE /\ pc' = AfterGet
                  /\ results' = results
                  /\ in_flight' = in_flight + 1
                  /\ pending' = [url |-> CurrentUrl, t |-> now, before |-> requests]
    /\ UNCHANGED <<server_vars, thread_vars, max_requests, time_window, now, history_vars,
                   urls, domain_groups, gi, ui, returned, sleeps>>

\* the response arrives: the rest of fetch_url runs and its result is appended
FetchEnd(resp) ==
    /\ pc = "awaiting"
    /\ LET f == FetchUrl(pending.before, pending.url, pending.t, resp)
       IN IF f.out.raised
          THEN pc' = "done" /\ returned' = Raised /\ results' = results
          ELSE pc' = "sleep" /\ returned' = returned
               /\ results' = Append(results, f.out.value)
    /\ in_flight' = in_flight - 1
    /\ pending' = <<>>
    /\ UNCHANGED <<server_vars, thread_vars, limiter_vars, history_vars, urls, domain_groups, gi, ui,
                   fetched, fetch_starts, admission_checks, limiter_calls,
                   http_gets, sleeps>>

\* time passes while the response is awaited
Elapse == pc = "awaiting" /\ Tick

NextSeq ==
    \/ \E us \in Seqs(SeqUrls, MaxBatch) : BatchStart(us)
    \/ FetchBegin
    \/ \E resp \in SeqResponses : FetchEnd(resp)
    \/ Elapse
    \/ BatchSleep

SpecSeq == InitBatch /\ [][NextSeq]_vars

----------------------------------------------------------------------------
(* WebScraper.fetch_url called on its own, with every kind of response *)

\* the urls given to fetch_url: ordinary ones, urls that contain "pdf" in
\* lower and in upper case, and a malformed one
PdfUrls == {<<"http", ":", "//", "a.com", "/x.pdf">>,
            <<"http", ":", "//", "b.com", "/X.PDF">>,
            <<"http", ":", "//", "pdf.com", "/1">>}
FetchUrls == {<<"http", ":", "//", "a.com", "/1">>,
              <<"http", ":", "//", "b.com", "/1">>,
              <<"a.com", "/1">>} \cup PdfUrls

\* await scraper.fetch_url(url), the server answering resp
FetchUrlCall(url, resp) ==
    /\ pc = "idle"
    /\ LET f == FetchUrl(requests, url, now, resp)
       IN /\ requests' = f.requests
          /\ dispatched' = [url |-> url, resp |-> resp, out |-> f.out,
                            got |-> f.http_gets = 1, before |-> requests]
    /\ UNCHANGED <<server_vars, max_requests, time_window, now, history_vars, batch_vars,
                   threads>>

NextFetch == \E url \in FetchUrls, resp \in Responses : FetchUrlCall(url, resp)

SpecFetch == InitBatch /\ [][NextFetch]_vars

----------------------------------------------------------------------------
(* RateLimiter.can_make_request called from two threads. The method takes no
   lock, so the interpreter may switch threads between any two of its
   statements; each action below is one statement of one thread. *)

MaxThreadCalls == 3     \* can_make_request calls made by the threads together
MaxThreadTime == 2      \* the clock stops advancing here while threads run

Busy == {t \in Threads : threads[t].pc # "idle"}

\* current_time = time.time(); if domain not in self.requests: create the entry
ThreadEnter(t, d) ==
    /\ threads[t].pc = "idle"
    /\ SeqSum(calls) + Cardinality(Busy) < MaxThreadCalls
    /\ threads' = [threads EXCEPT ![t] =
                      [pc |-> "filter", domain |-> d, current_time |-> now,
                       pruned |-> <<>>]]
    /\ requests' = [x \in DOMAIN requests \cup {d} |-> Entry(requests, x)]
    /\ UNCHANGED <<server_vars, max_requests, time_window, now, history_vars, batch_vars,
                   dispatched>>

\* the list comprehension is evaluated over the list bound to the entry
ThreadFilter(t) ==
    /\ threads[t].pc = "filter"
    /\ threads' = [threads EXCEPT ![t].pc = "assign",
                                  ![t].pruned = Prune(requests[threads[t].domain],
                                                      threads[t].current_time)]
    /\ UNCHANGED <<server_vars, limiter_vars, history_vars, batch_vars, dispatched>>

\* self.requests[domain] = the new list
ThreadAssign(t) ==
    /\ threads[t].pc = "assign"
    /\ requests' = [requests EXCEPT ![threads[t].domain] = threads[t].pruned]
    /\ threads' = [threads EXCEPT ![t].pc = "check"]
    /\ UNCHANGED <<server_vars, max_requests, time_window, now, history_vars, batch_vars,
                   dispatched>>

\* if len(self.requests[domain]) < self.max_requests: ... else return False
ThreadCheck(t) ==
    /\ threads[t].pc = "check"
    /\ IF Admits(requests[threads[t].domain])
       THEN /\ threads' = [threads EXCEPT ![t].pc = "append"]
            /\ calls' = calls
       ELSE /\ threads' = [threads EXCEPT ![t] = NoLocals]
            /\ calls' = [calls EXCEPT ![threads[t].domain] =
                            Append(@, [t |-> threads[t].current_time, r |-> FALSE])]
    /\ UNCHANGED <<server_vars, limiter_vars, last, wait_seen, batch_vars, dispatched>>

\* self.requests[domain].append(current_time); return True
ThreadAppend(t) ==
    /\ threads[t].pc = "append"
    /\ requests' = [requests EXCEPT ![threads[t].domain] =
                       Append(@, threads[t].current_time)]
    /\ calls' = [calls EXCEPT ![threads[t].domain] =
                    Append(@, [t |-> threads[t].current_time, r |-> TRUE])]
    /\ threads' = [threads EXCEPT ![t] = NoLocals]
    /\ UNCHANGED <<server_vars, max_requests, time_window, now, last, wait_seen, batch_vars,
                   dispatched>>

\* time passes between two statements
ThreadTick == now < MaxThreadTime /\ Tick

NextThreads ==
    \/ ThreadTick
    \/ \E t \in Threads, d \in Domains : ThreadEnter(t, d)
    \/ \E t \in Threads : ThreadFilter(t)
    \/ \E t \in Threads : ThreadAssign(t)
    \/ \E t \in Threads : ThreadCheck(t)
    \/ \E t \in Threads : ThreadAppend(t)

SpecThreads == Init /\ [][NextThreads]_vars

----------------------------------------------------------------------------
(* Properties of the RateLimiter, checked under Spec *)

\* the timestamps of sequence b that lie inside the window at time t
InWindowCount(b, t) == Cardinality({i \in 1..Len(b) : t - b[i] < time_window})

\* some can_make_request(d) before the most recent one was denied
DeniedBeforeLast(d) == \E i \in 1..(Len(calls[d]) - 1) : ~calls[d][i].r

\* C1: with max_requests = n >= 1, among the can_make_request(d) calls made
\* less than time_window after the first one, the first n return true and the
\* (n+1)-th returns false.
C1_FirstNAdmittedNextDenied ==
    max_requests >= 1 =>
        \A d \in Domains : \A i \in 1..Len(calls[d]) :
            calls[d][i].t - calls[d][1].t < time_window =>
                /\ (i <= max_requests => calls[d][i].r)
                /\ (i = max_requests + 1 => ~calls[d][i].r)

\* C1 witness: n = 2, the clock moved between the calls, the third call is
\* still inside the window of the first and is denied.
C1_Witness ==
    /\ max_requests = 2
    /\ \E d \in Domains :
          /\ Len(calls[d]) = 3
          /\ calls[d][1].t < calls[d][3].t
          /\ calls[d][3].t - calls[d][1].t < time_window
          /\ calls[d][1].r /\ calls[d][2].r /\ ~calls[d][3].r

\* C2: slot recycling. With max_requests >= 1, once d has been denied, a
\* can_make_request(d) made more than time_window after the oldest admitted
\* request still recorded for d returns true.
C2_SlotRecycling ==
    (/\ max_requests >= 1
     /\ last.op = "can_make_request"
     /\ DeniedBeforeLast(last.domain)
     /\ Entry(last.before, last.domain) # <<>>
     /\ \E i \in 1..Len(last.before[last.domain]) :
           /\ \A j \in 1..Len(last.before[last.domain]) :
                 last.before[last.domain][i] <= last.before[last.domain][j]
           /\ last.t - last.before[last.domain][i] > time_window)
    => last.result = TRUE

\* C2 witness: d was admitted, then denied twice, and is admitted again after
\* the window of the oldest recorded request has passed.
C2_Witness ==
    /\ max_requests >= 1
    /\ last.op = "can_make_request"
    /\ last.result = TRUE
    /\ Entry(last.before, last.domain) # <<>>
    /\ last.t - last.before[last.domain][1] > time_window
    /\ LET c == calls[last.domain]
       IN /\ Len(c) >= 4
          /\ ~c[Len(c) - 1].r
          /\ ~c[Len(c) - 2].r
          /\ c[Len(c) - 3].r

\* C3: get_wait_time(d) returns 0 when no can_make_request(d) was ever
\* admitted, whatever was requested for other domains.
C3_NoHistoryNoWait ==
    (/\ last.op = "get_wait_time"
     /\ \A i \in 1..Len(calls[last.domain]) : ~calls[last.domain][i].r)
    => last.result = 0

\* C3 witness: get_wait_time(d) for a domain never requested while another
\* domain has a request recorded inside its window.
C3_Witness ==
    /\ last.op = "get_wait_time"
    /\ last.domain \notin DOMAIN requests
    /\ \E e \in DOMAIN requests :
          /\ e # last.domain
          /\ requests[e] # <<>>
          /\ GetWaitTime(requests, e, last.t) > 0

\* C4: between two get_wait_time(d) calls with no admission for d in between,
\* the later result is not larger than the earlier one.
C4_WaitNonIncreasing ==
    (last.op = "get_wait_time" /\ last.prev # NoWait)
    => last.result <= last.prev[1]

\* C4 witness: the wait time of d went down strictly between two
\* get_wait_time(d) calls, with a denied can_make_request(d) in between.
C4_Witness ==
    /\ last.op = "get_wait_time"
    /\ last.prev # NoWait
    /\ last.result < last.prev[1]
    /\ last.result > 0
    /\ last.prev[2] = TRUE

\* C8: can_make_request(d) at time t returns true iff fewer than max_requests
\* recorded timestamps of d lie inside the window; an admitted call appends
\* exactly the timestamp t to the timestamps kept, a denied call records
\* nothing.
C8_AdmitIffBelowLimit ==
    last.op = "can_make_request" =>
        LET d == last.domain
            b == Entry(last.before, d)
            cnt == InWindowCount(b, last.t)
            a == requests[d]
        IN /\ last.result \in BOOLEAN
           /\ last.result <=> cnt < max_requests
           /\ \A i \in 1..cnt : a[i] \in Elems(b) /\ last.t - a[i] < time_window
           /\ last.result => Len(a) = cnt + 1 /\ a[cnt + 1] = last.t
           /\ ~last.result => Len(a) = cnt

\* C8 witness: a call at the very edge of the window: the oldest timestamp is
\* exactly time_window old, is dropped, and the call is admitted because of it.
C8_Witness ==
    /\ last.op = "can_make_request"
    /\ last.result = TRUE
    /\ Len(Entry(last.before, last.domain)) = max_requests
    /\ last.t - last.before[last.domain][1] = time_window

\* C8 witness of the denied case: the window is full and nothing is recorded.
C8_WitnessDenied ==
    /\ last.op = "can_make_request"
    /\ last.result = FALSE
    /\ max_requests >= 1
    /\ requests[last.domain] = last.before[last.domain]

\* C9: with at least one recorded timestamp, get_wait_time(d) at time t is
\* max(0, time_window - (t - oldest)), oldest being the minimum timestamp
\* stored, stale ones included.
C9_WaitFromOldest ==
    (last.op = "get_wait_time" /\ Entry(last.before, last.domain) # <<>>)
    => \E oldest \in Elems(last.before[last.domain]) :
          /\ \A x \in Elems(last.before[last.domain]) : oldest <= x
          /\ last.result >= 0
          /\ last.result >= time_window - (last.t - oldest)
          /\ last.result \in {0, time_window - (last.t - oldest)}

\* C9 witness: the oldest stored timestamp is stale, a newer one is not, and
\* the wait time is 0.
C9_Witness ==
    /\ last.op = "get_wait_time"
    /\ Len(Entry(last.before, last.domain)) >= 2
    /\ last.t - last.before[last.domain][1] >= time_window
    /\ last.t - last.before[last.domain][2] < time_window
    /\ last.result = 0

\* C10: get_wait_time is a pure read: the requests mapping after the call is
\* the mapping before it.
C10_GetWaitTimePure ==
    last.op = "get_wait_time" => requests = last.before

\* C10 witness: get_wait_time(d) was called while d held a stale timestamp
\* that a prune would drop, and while the other domain had no entry.
C10_Witness ==
    /\ last.op = "get_wait_time"
    /\ last.domain \in DOMAIN requests
    /\ \E i \in 1..Len(requests[last.domain]) :
          last.t - requests[last.domain][i] >= time_window
    /\ \E e \in Domains : e \notin DOMAIN requests

\* C11: with max_requests >= 0 and a single caller, the timestamp sequence of
\* every domain never holds more than max_requests timestamps.
C11_LengthAtMostLimit ==
    max_requests >= 0 =>
        \A d \in DOMAIN requests : Len(requests[d]) <= max_requests

\* C11 witness: right after an admission that followed a prune, the sequence
\* of the domain holds exactly max_requests = 2 timestamps.
C11_Witness ==
    /\ max_requests = 2
    /\ last.op = "can_make_request"
    /\ last.result = TRUE
    /\ Len(Entry(last.before, last.domain)) = 2
    /\ Len(requests[last.domain]) = 2

\* C12 (under SpecZero): with max_requests <= 0 every can_make_request returns
\* false and no timestamp is ever recorded.
C12_ZeroCapacityNeverAdmits ==
    max_requests <= 0 =>
        /\ \A d \in Domains : \A i \in 1..Len(calls[d]) : ~calls[d][i].r
        /\ \A d \in DOMAIN requests : requests[d] = <<>>

\* C12 witness: a limiter built with a negative max_requests has denied calls
\* for both domains, the later one after the whole window has passed.
C12_Witness ==
    /\ max_requests < 0
    /\ \A d \in Domains : d \in DOMAIN requests /\ Len(calls[d]) >= 1
    /\ \E d \in Domains :
          /\ Len(calls[d]) >= 2
          /\ calls[d][Len(calls[d])].t - calls[d][1].t > time_window

\* C17: can_make_request(d) leaves the entry of every other domain as it was:
\* it neither creates, prunes nor extends it; its result is decided by the
\* timestamps of d alone.
C17_OnlyOwnDomain ==
    last.op = "can_make_request" =>
        /\ \A e \in Domains \ {last.domain} :
              /\ e \in DOMAIN requests <=> e \in DOMAIN last.before
              /\ e \in DOMAIN requests => requests[e] = last.before[e]
        /\ last.result <=>
              InWindowCount(Entry(last.before, last.domain), last.t) < max_requests

\* C17 witness: d was admitted while the other domain held a full window, one
\* timestamp of which was already stale.
C17_Witness ==
    /\ last.op = "can_make_request"
    /\ last.result = TRUE
    /\ max_requests >= 1
    /\ \E e \in DOMAIN requests \ {last.domain} :
          /\ Len(requests[e]) = max_requests
          /\ last.t - requests[e][1] >= time_window

----------------------------------------------------------------------------
(* Properties of batch_fetch_urls, checked under SpecBatch *)

\* how often x occurs in the sequence s
Count(s, x) == Cardinality({i \in 1..Len(s) : s[i] = x})

\* the first position of the input at which a url of domain d stands
FirstIndex(us, d) ==
    CHOOSE i \in 1..Len(us) :
        /\ extract_domain(us[i]) = d
        /\ \A j \in 1..(i - 1) : extract_domain(us[j]) # d

IsErrorResult(r) == "error" \in DOMAIN r

\* C5: batch_fetch_urls([]) returns the empty list, calls fetch_url for
\* nothing, makes no call to the rate limiter and does not sleep.
C5_EmptyBatch ==
    (pc = "done" /\ urls = <<>>) =>
        /\ returned = Returned(<<>>)
        /\ fetched = <<>>
        /\ limiter_calls = 0
        /\ http_gets = 0
        /\ requests = <<>>
        /\ sleeps = 0

\* C5 witness: a batch over the empty list has returned.
C5_Witness == pc = "done" /\ urls = <<>> /\ returned.kind = "returned"

\* C6: a finished batch has returned, without an exception, one result for
\* every element of urls, each url having been given to fetch_url as often as
\* it occurs in the input; before that the call has not returned.
C6_OneResultPerUrl ==
    /\ pc = "done" =>
          /\ returned.kind = "returned"
          /\ Len(returned.value) = Len(urls)
          /\ Len(fetched) = Len(urls)
          /\ \A u \in Urls : Count(fetched, u) = Count(urls, u)
    /\ pc \in {"fetch", "sleep"} => returned = NoReturn /\ Len(results) <= Len(urls)

\* C6 witness: a batch of three urls with a duplicate, whose first fetch
\* raised inside fetch_url, whose second was rate limited and whose third was a
\* malformed url, has returned three results.
C6_Witness ==
    /\ pc = "done"
    /\ Len(urls) = 3
    /\ returned.kind = "returned"
    /\ Len(returned.value) = 3
    /\ urls[1] = urls[2]
    /\ urls[3] \in MalformedUrls
    /\ \E i \in 1..3 : IsErrorResult(returned.value[i])
                           /\ returned.value[i].error = "Fetch error"
    /\ \E i \in 1..3 : IsErrorResult(returned.value[i])
                           /\ returned.value[i].error = "Rate limited"
    /\ \E i \in 1..3 : IsErrorResult(returned.value[i])
                           /\ returned.value[i].error = "Invalid URL format"

\* C7: the results of a finished batch are in domain-grouped order: result i
\* belongs to the i-th fetched url; the urls of one domain are adjacent and in
\* their input order; the domains come in the order of their first appearance
\* in the input.
C7_DomainGroupedOrder ==
    pc = "done" =>
        /\ returned.kind = "returned"
        /\ Len(returned.value) = Len(fetched)
        /\ \A i \in 1..Len(returned.value) :
              ~IsErrorResult(returned.value[i]) => returned.value[i].url = fetched[i]
        /\ \A i, j \in 1..Len(fetched) :
              (i < j /\ extract_domain(fetched[i]) = extract_domain(fetched[j])) =>
                  \A k \in i..j : extract_domain(fetched[k]) = extract_domain(fetched[i])
        /\ \A d \in Hosts \cup {""} :
              SelectSeq(fetched, LAMBDA u : extract_domain(u) = d)
                  = SelectSeq(urls, LAMBDA u : extract_domain(u) = d)
        /\ \A i, j \in 1..Len(fetched) :
              (i < j /\ extract_domain(fetched[i]) # extract_domain(fetched[j])) =>
                  FirstIndex(urls, extract_domain(fetched[i]))
                      < FirstIndex(urls, extract_domain(fetched[j]))

\* C7 witness: [a.com/1, b.com/1, a.com/2], every fetch succeeding, has
\* returned the results of a.com/1, a.com/2, b.com/1 in that order.
C7_Witness ==
    /\ pc = "done"
    /\ urls = << <<"http", ":", "//", "a.com", "/1">>,
                 <<"http", ":", "//", "b.com", "/1">>,
                 <<"http", ":", "//", "a.com", "/2">> >>
    /\ returned.kind = "returned"
    /\ Len(returned.value) = 3
    /\ \A i \in 1..3 : ~IsErrorResult(returned.value[i])
    /\ returned.value[1].url = urls[1]
    /\ returned.value[2].url = urls[3]
    /\ returned.value[3].url = urls[2]

\* the host a url names after its "//", the empty string when it names none
NetworkLocation(u) ==
    IF \E i \in 1..(Len(u) - 1) : u[i] = "//" /\ u[i + 1] \in Hosts
    THEN u[(CHOOSE i \in 1..(Len(u) - 1) : u[i] = "//" /\ u[i + 1] \in Hosts) + 1]
    ELSE ""

IsRateLimited(r) == IsErrorResult(r) /\ r.error = "Rate limited"

\* the fetch_url calls before the i-th that were admitted for the same domain
AdmittedBefore(i) ==
    {j \in 1..(i - 1) :
        /\ fetched[j] \in ValidUrls
        /\ NetworkLocation(fetched[j]) = NetworkLocation(fetched[i])
        /\ ~IsRateLimited(results[j])}

\* C14 as stated: every malformed url of a batch is placed in the group of
\* the empty-string domain.
C14_MalformedInEmptyGroup ==
    \A g \in 1..Len(domain_groups) :
        \A u \in Elems(domain_groups[g].urls) :
            u \in MalformedUrls => domain_groups[g].domain = ""

\* C14 amended: every malformed url of a batch is placed in the group of its
\* network location (the empty string when it has none), is passed to
\* fetch_url as often as it occurs in the input, and each time produces the
\* 'Invalid URL format' error result without a call to the rate limiter.
C14_MalformedStillFetched ==
    /\ \A i \in 1..Len(urls) :
          (pc # "idle" /\ urls[i] \in MalformedUrls) =>
              \E g \in 1..Len(domain_groups) :
                  /\ domain_groups[g].domain = NetworkLocation(urls[i])
                  /\ urls[i] \in Elems(domain_groups[g].urls)
    /\ \A i \in 1..Len(results) :
          fetched[i] \in MalformedUrls =>
              results[i] = [error |-> "Invalid URL format"]
    /\ pc = "done" =>
          \A u \in MalformedUrls : Count(fetched, u) = Count(urls, u)
    /\ (\A i \in 1..Len(fetched) : fetched[i] \in MalformedUrls) =>
          limiter_calls = 0 /\ requests = <<>>

\* C14 witness: a finished batch of a url without scheme and network location,
\* a url of b.com and a url with the network location b.com but no scheme;
\* both malformed urls got the 'Invalid URL format' result, the second one as
\* a member of the b.com group.
C14_Witness ==
    /\ pc = "done"
    /\ urls = << <<"a.com", "/1">>,
                 <<"http", ":", "//", "b.com", "/1">>,
                 <<"//", "b.com", "/2">> >>
    /\ Len(domain_groups) = 2
    /\ domain_groups[2].domain = "b.com"
    /\ Len(domain_groups[2].urls) = 2
    /\ returned.kind = "returned"
    /\ returned.value[1] = [error |-> "Invalid URL format"]
    /\ returned.value[3] = [error |-> "Invalid URL format"]

\* C15: a fetch_url call whose domain is denied by the rate limiter issues no
\* HTTP request and returns the 'Rate limited' error carrying the wait time of
\* that domain: time_window less the time since the oldest admitted request
\* of the domain, 0 when there is none.
C15_DeniedShortCircuits ==
    /\ Len(results) = Len(fetched)
    /\ http_gets = Cardinality({i \in 1..Len(results) :
                                  fetched[i] \in ValidUrls /\ ~IsRateLimited(results[i])})
    /\ \A i \in 1..Len(results) :
          fetched[i] \in ValidUrls =>
              (IsRateLimited(results[i]) <=>
                  Cardinality({j \in AdmittedBefore(i) :
                      fetch_starts[i] - fetch_starts[j] < time_window}) >= max_requests)
    /\ \A i \in 1..Len(results) :
          IsRateLimited(results[i]) =>
              /\ fetched[i] \in ValidUrls
              /\ IF AdmittedBefore(i) = {}
                 THEN results[i].wait = 0
                 ELSE \E j \in AdmittedBefore(i) :
                         /\ \A k \in AdmittedBefore(i) : j <= k
                         /\ results[i].wait
                              = time_window - (fetch_starts[i] - fetch_starts[j])

\* C15 witness: with max_requests = 1 the third url of a domain was denied two
\* seconds after the first was admitted, and was told to wait 58 seconds; only
\* one HTTP request was made.
C15_Witness ==
    /\ max_requests = 1
    /\ Len(results) = 3
    /\ ~IsErrorResult(results[1])
    /\ IsRateLimited(results[2])
    /\ IsRateLimited(results[3])
    /\ results[3].wait = 58
    /\ http_gets = 1

\* C16: no retry. fetch_url is called once per element of the input, each call
\* makes at most one admission check and at most one HTTP GET, and a url whose
\* fetch was rate limited or failed is not attempted again.
C16_NoRetry ==
    /\ Len(fetched) <= Len(urls)
    /\ \A u \in Urls : Count(fetched, u) <= Count(urls, u)
    /\ pc = "done" => \A u \in Urls : Count(fetched, u) = Count(urls, u)
    /\ admission_checks = Cardinality({i \in 1..Len(fetched) : fetched[i] \in ValidUrls})
    /\ http_gets <= admission_checks
    /\ limiter_calls <= 2 * admission_checks

\* C16 witness: a finished batch of the same url three times, with
\* max_requests = 1: the first fetch failed with an HTTP error, the other two
\* were rate limited; three fetch_url calls, three admission checks, one GET.
C16_Witness ==
    /\ pc = "done"
    /\ max_requests = 1
    /\ Len(urls) = 3
    /\ urls[1] = urls[2] /\ urls[2] = urls[3]
    /\ IsErrorResult(results[1]) /\ results[1].error = "HTTP error"
    /\ IsRateLimited(results[2])
    /\ IsRateLimited(results[3])
    /\ Len(fetched) = 3
    /\ admission_checks = 3
    /\ http_gets = 1

----------------------------------------------------------------------------
(* Properties of batch_fetch_urls with its await points, checked under SpecSeq *)

\* C13: the delay of 1 second is unconditional. It is awaited after every
\* fetch_url call that returned, whatever the result (success, error, rate
\* limited, invalid) and also after the last url: a batch that returns has
\* slept once per url, every fetch starts only after the delays of all earlier
\* fetches, and two consecutive fetch_url calls start at least 1 second apart.
C13_DelayAfterEveryFetch ==
    /\ pc = "fetch" => sleeps = Len(fetched)
    /\ pc \in {"awaiting", "sleep"} => sleeps = Len(fetched) - 1
    /\ (pc = "done" /\ returned.kind = "returned") => sleeps = Len(urls)
    /\ \A i \in 1..(Len(fetch_starts) - 1) :
          fetch_starts[i + 1] - fetch_starts[i] >= SleepDelay

\* C13 witness: a returned batch of three urls whose results are a success, an
\* invalid url and an HTTP error; three delays were awaited, the second fetch
\* started two seconds after the first (one second of latency, one of delay)
\* and the third one second after the second.
C13_Witness ==
    /\ pc = "done"
    /\ returned.kind = "returned"
    /\ Len(results) = 3
    /\ ~IsErrorResult(results[1])
    /\ IsErrorResult(results[2]) /\ results[2].error = "Invalid URL format"
    /\ IsErrorResult(results[3]) /\ results[3].error = "HTTP error"
    /\ sleeps = 3
    /\ fetch_starts[2] - fetch_starts[1] = 2
    /\ fetch_starts[3] - fetch_starts[2] = 1

----------------------------------------------------------------------------
(* Properties of can_make_request under threads, checked under SpecThreads *)

\* the calls of can_make_request(d) that returned True
AdmittedCalls(d) == {i \in 1..Len(calls[d]) : calls[d][i].r}

\* C19: concurrent callers of can_make_request are serialized. With the
\* statements of two threads interleaved, the calls admitted for a domain with
\* timestamps inside one window never exceed max_requests, and no admitted
\* timestamp still inside the window is missing from the domain's list.
C19_ThreadsSerialized ==
    \A d \in Domains :
        /\ \A i \in AdmittedCalls(d) :
              Cardinality({j \in AdmittedCalls(d) :
                  /\ calls[d][j].t - calls[d][i].t >= 0
                  /\ calls[d][j].t - calls[d][i].t < time_window}) <= max_requests
        /\ \A i \in AdmittedCalls(d) :
              now - calls[d][i].t < time_window =>
                  Count(Entry(requests, d), calls[d][i].t)
                      >= Cardinality({j \in AdmittedCalls(d) :
                                        calls[d][j].t = calls[d][i].t})

----------------------------------------------------------------------------
(* Properties of the content dispatch of fetch_url, checked under SpecFetch *)

\* the last fetch_url call retrieved a response: session.get was reached and
\* neither it nor raise_for_status raised
Retrieved == dispatched.got /\ dispatched.resp.outcome = "ok"

\* the three outcomes of the dispatch, read off the returned dict
PdfBranch(r) ==
    IF IsErrorResult(r) THEN r.error = "PDF processing error"
    ELSE r.content_type = "pdf"
HtmlBranch(r) ==
    IF IsErrorResult(r) THEN r.error = "HTML processing error"
    ELSE r.content_type = "html"
Unsupported(r) == IsErrorResult(r) /\ r.error = "Unsupported content type"

ExactlyOneBranch(r) ==
    /\ PdfBranch(r) \/ HtmlBranch(r) \/ Unsupported(r)
    /\ ~(PdfBranch(r) /\ HtmlBranch(r))
    /\ ~(PdfBranch(r) /\ Unsupported(r))
    /\ ~(HtmlBranch(r) /\ Unsupported(r))

\* the content types that declare a PDF, and those that declare HTML or text
DeclaredPdf == {PdfType, UpperPdfType}
DeclaredHtmlOrText == {HtmlType, PlainType}

----------------------------------------------------------------------------
(* The MCP tools of web_scraping_server.py. Every tool call builds its own
   WebScraper, with the default max_requests_per_domain, inside
   "async with WebScraper() as scraper", and drops it when it returns. *)

DefaultMaxRequests == 5     \* WebScraper.__init__: max_requests_per_domain = 5
MaxToolFetches == 6         \* fetch_url calls made by the tool calls together
MaxServerTime == 1          \* the clock stops advancing between tool calls here

\* the urls and responses the tool calls draw from
ServerUrls == {<<"http", ":", "//", "a.com", "/1">>,
               <<"http", ":", "//", "b.com", "/1">>}
ServerResponses ==
    {[outcome |-> "ok", content_type |-> HtmlType, processed |-> TRUE]}

\* the record kept of one fetch_url call
ServedEntry(url, t, f) ==
    [domain |-> extract_domain(url), t |-> t, got |-> f.http_gets = 1,
     limited |-> IsRateLimited(f.out.value)]

\* the order in which batch_fetch_urls visits urls: group after group
RECURSIVE Flatten(_)
Flatten(groups) ==
    IF groups = <<>> THEN <<>> ELSE Head(groups).urls \o Flatten(Tail(groups))
BatchOrder(us) == Flatten(GroupByDomain(us))

\* one pass of the inner loop body of batch_fetch_urls on the state st of the
\* run so far: fetch_url, results.append, asyncio.sleep
AfterFetch(st, url, f, is_last) ==
    [requests |-> f.requests,
     results |-> Append(st.results, f.out.value),
     log |-> Append(st.log, ServedEntry(url, st.t, f)),
     t |-> st.t + DelayAfter(f.out.value, is_last)]
FetchStep(st, url, resp, is_last) ==
    AfterFetch(st, url, FetchUrl(st.requests, url, st.t, resp), is_last)

\* the nested loops of batch_fetch_urls run to their end, the i-th fetch
\* answered by rs[i]: the results, the limiter state and clock left behind,
\* and the record of each fetch_url call
RECURSIVE RunFetches(_, _, _)
RunFetches(st, order, rs) ==
    IF order = <<>>
    THEN st
    ELSE RunFetches(FetchStep(st, Head(order), Head(rs), Len(order) = 1),
                    Tail(order), Tail(rs))

\* WebScraper.batch_fetch_urls(us) as one step
RunBatch(reqs, us, t, rs) ==
    RunFetches([requests |-> reqs, results |-> <<>>, log |-> <<>>, t |-> t],
               BatchOrder(us), rs)

\* [r for r in results if r.get('status') == 'success'] and
\* [r for r in results if 'error' in r]
SuccessfulResults(rs) ==
    SelectSeq(rs, LAMBDA r : "status" \in DOMAIN r /\ r.status = "success")
FailedResults(rs) == SelectSeq(rs, LAMBDA r : "error" \in DOMAIN r)

\* mutant of BatchToolResponse: the success rate is left out for an empty list
BatchToolResponseGuarded(us, rs) ==
    [kind |-> "summary", total |-> Len(us),
     successful |-> Len(SuccessfulResults(rs)),
     failed |-> Len(FailedResults(rs)),
     rate |-> IF Len(us) = 0 THEN 0
              ELSE (Len(SuccessfulResults(rs)) * 100) \div Len(us)]

\* mutant of BatchToolResponse: a result without status counts as failed
BatchToolResponseCountingAll(us, rs) ==
    IF Len(us) = 0
    THEN [kind |-> "error", text |-> "Error in batch fetch"]
    ELSE [kind |-> "summary", total |-> Len(us),
          successful |-> Len(SuccessfulResults(rs)),
          failed |-> Len(rs),
          rate |-> (Len(SuccessfulResults(rs)) * 100) \div Len(us)]

\* the string the batch_fetch_urls tool returns for the results rs of the urls
\* us: the summary, or, the division by len(urls) raising ZeroDivisionError
\* inside the try block, the text of the except clause
BatchToolResponse(us, rs) ==
    IF Len(us) = 0
    THEN [kind |-> "error", text |-> "Error in batch fetch"]
    ELSE [kind |-> "summary", total |-> Len(us),
          successful |-> Len(SuccessfulResults(rs)),
          failed |-> Len(FailedResults(rs)),
          rate |-> (Len(SuccessfulResults(rs)) * 100) \div Len(us)]

\* the server process starts: no scraper exists; max_requests and time_window
\* are those every WebScraper() is built with
InitServer ==
    /\ max_requests = DefaultMaxRequests
    /\ time_window = TimeWindowScraper
    /\ requests = <<>>
    /\ now = 0
    /\ last = NoCall
    /\ calls = [d \in Domains |-> <<>>]
    /\ wait_seen = [d \in Domains |-> NoWait]
    /\ BatchIdle
    /\ ThreadsIdle
    /\ ServerIdle

\* mutant of NewScraperRequests: the tools share one limiter
SharedScraperRequests(reqs) == reqs

\* the limiter state of the scraper a tool call works with: WebScraper()
\* builds a new RateLimiter, whose requests dict is empty
NewScraperRequests(reqs) == <<>>

\* the fetch_url_content tool
ToolFetchUrlContent(url, resp) ==
    /\ Len(served) < MaxToolFetches
    /\ LET f == FetchUrl(NewScraperRequests(requests), url, now, resp)
       IN /\ requests' = f.requests
          /\ served' = Append(served, ServedEntry(url, now, f))
          /\ tool_result' = [tool |-> "fetch_url_content", urls |-> <<url>>,
                            results |-> <<f.out.value>>,
                            response |-> IF IsErrorResult(f.out.value)
                                         THEN [kind |-> "error",
                                               text |-> f.out.value.error]
                                         ELSE [kind |-> "content"]]
    /\ UNCHANGED <<max_requests, time_window, now, history_vars, batch_vars,
                   thread_vars, tasks, hume>>

\* the batch_fetch_urls tool
ToolBatchFetchUrls(us, rs) ==
    /\ Len(served) + Len(us) <= MaxToolFetches
    /\ \E b \in {RunBatch(NewScraperRequests(requests), us, now, rs)} :
          /\ requests' = b.requests
          /\ now' = b.t
          /\ served' = served \o b.log
          /\ tool_result' = [tool |-> "batch_fetch_urls", urls |-> us,
                            results |-> b.results,
                            response |-> BatchToolResponse(us, b.results)]
    /\ UNCHANGED <<max_requests, time_window, history_vars, batch_vars,
                   thread_vars, tasks, hume>>

\* time passes between two tool calls
ServerTick ==
    /\ now < MaxServerTime
    /\ now' = now + 1
    /\ UNCHANGED <<max_requests, time_window, requests, history_vars, batch_vars,
                   thread_vars, server_vars>>

NextServer ==
    \/ ServerTick
    \/ \E url \in ServerUrls, resp \in ServerResponses : ToolFetchUrlContent(url, resp)
    \/ \E us \in Seqs(ServerUrls, MaxBatch) :
          \E rs \in [1..Len(us) -> ServerResponses] : ToolBatchFetchUrls(us, rs)

SpecServer == InitServer /\ [][NextServer]_vars

\* the tools called with urls of every kind (plain, containing "pdf",
\* malformed) and answered with every kind of response
ToolUrls == {<<"http", ":", "//", "a.com", "/1">>,
             <<"http", ":", "//", "b.com", "/X.PDF">>,
             <<"a.com", "/1">>}
ToolResponses ==
    {[outcome |-> "ok", content_type |-> HtmlType, processed |-> TRUE],
     [outcome |-> "ok", content_type |-> HtmlType, processed |-> FALSE],
     [outcome |-> "ok", content_type |-> ImageType, processed |-> TRUE],
     [outcome |-> "http_error", content_type |-> <<>>, processed |-> TRUE]}

\* tool calls follow one another while the log of fetch_url calls is short
NextTool ==
    \/ \E url \in ToolUrls, resp \in ToolResponses :
          Len(served) < MaxBatch /\ ToolFetchUrlContent(url, resp)
    \/ \E us \in Seqs(ToolUrls, MaxBatch), resp \in ToolResponses :
          /\ Len(served) < MaxBatch
          /\ ToolBatchFetchUrls(us, [i \in 1..Len(us) |-> resp])

SpecTool == InitServer /\ [][NextTool]_vars

----------------------------------------------------------------------------
(* Properties of the tools, checked under SpecServer *)

\* the fetch_url calls before the i-th, of any tool call, that were admitted
\* for the same domain less than time_window earlier
ServedBefore(i) ==
    {j \in 1..(i - 1) :
        /\ served[j].domain = served[i].domain
        /\ served[j].got
        /\ served[i].t - served[j].t < time_window}

\* C21: the limiter is process-wide and accumulates timestamps across tool
\* calls: a fetch_url call of a tool that comes after max_requests admitted
\* fetches of the same domain within one time window, made by any tool
\* calls, is rate limited.
C21_LimiterProcessWide ==
    \A i \in 1..Len(served) :
        Cardinality(ServedBefore(i)) >= max_requests =>
            served[i].limited /\ ~served[i].got

----------------------------------------------------------------------------
(* One WebScraper used by a single caller for any sequence of fetch_url and
   batch_fetch_urls calls, over a time long enough for the window to slide *)

MaxScraperFetches == 3  \* fetch_url calls made on the scraper, batches included
MaxClock == 61          \* the caller stops waiting between calls here

\* the urls given to the scraper, and how long the caller waits between calls
WindowUrls == {<<"http", ":", "//", "a.com", "/1">>,
               <<"http", ":", "//", "b.com", "/1">>,
               <<"a.com", "/1">>}
AdvanceSteps == {TimeWindowScraper - 1}

\* await scraper.fetch_url(url)
ScraperFetchUrl(url, resp) ==
    /\ Len(served) < MaxScraperFetches
    /\ LET f == FetchUrl(requests, url, now, resp)
       IN /\ requests' = f.requests
          /\ served' = Append(served, ServedEntry(url, now, f))
    /\ UNCHANGED <<max_requests, time_window, now, history_vars, batch_vars,
                   thread_vars, tool_result, tasks, hume>>

\* await scraper.batch_fetch_urls(us), every request answered by resp
ScraperBatchFetchUrls(us, resp) ==
    /\ us # <<>>
    /\ Len(served) + Len(us) <= MaxScraperFetches
    /\ \E b \in {RunBatch(requests, us, now, [i \in 1..Len(us) |-> resp])} :
          /\ requests' = b.requests
          /\ now' = b.t
          /\ served' = served \o b.log
    /\ UNCHANGED <<max_requests, time_window, history_vars, batch_vars,
                   thread_vars, tool_result, tasks, hume>>

\* the caller waits dt seconds before its next call
Advance(dt) ==
    /\ now + dt <= MaxClock
    /\ now' = now + dt
    /\ UNCHANGED <<max_requests, time_window, requests, history_vars, batch_vars,
                   thread_vars, server_vars>>

NextWindow ==
    \/ \E dt \in AdvanceSteps : Advance(dt)
    \/ \E url \in WindowUrls, resp \in SeqResponses : ScraperFetchUrl(url, resp)
    \/ \E us \in Seqs(WindowUrls, MaxBatch), resp \in SeqResponses :
          ScraperBatchFetchUrls(us, resp)

SpecWindow == InitBatch /\ [][NextWindow]_vars

----------------------------------------------------------------------------
(* Properties of one scraper over time, checked under SpecWindow *)

\* the fetch_url calls admitted for domain d at a time in (t - time_window, t]
AdmittedInWindow(d, t) ==
    {i \in 1..Len(served) :
        /\ served[i].domain = d
        /\ served[i].got
        /\ served[i].t <= t
        /\ served[i].t > t - time_window}

\* C22: sliding-window safety. For every domain d and every time t the number
\* of requests admitted for d, each of which issued an HTTP GET, at a time in
\* (t - time_window, t] is at most max_requests.
C22_SlidingWindowSafety ==
    \A d \in Domains : \A t \in 0..now :
        Cardinality(AdmittedInWindow(d, t)) <= max_requests

\* C22 witness: with max_requests = 1 a request for a.com was admitted, one
\* 59 seconds later was denied, and one 60 seconds later was admitted again.
C22_Witness ==
    /\ max_requests = 1
    /\ \E i, j, k \in 1..Len(served) :
          /\ i < j /\ j < k
          /\ served[i].domain = "a.com" /\ served[i].got
          /\ served[j].domain = "a.com" /\ served[j].limited
          /\ served[j].t = served[i].t + 59
          /\ served[k].domain = "a.com" /\ served[k].got
          /\ served[k].t = served[i].t + 60

----------------------------------------------------------------------------
(* Further properties of the RateLimiter, checked under Spec *)

\* C23: a denied can_make_request(d) leaves the timestamps of d as they were.
\* Whenever the call returns false its prune step removed nothing, the
\* sequence of d after the call is the one before it, and the only change to
\* the limiter is the empty entry created for a domain not seen before.
C23_DeniedLeavesSequence ==
    (last.op = "can_make_request" /\ last.result = FALSE) =>
        LET d == last.domain
            b == Entry(last.before, d)
        IN /\ \A i \in 1..Len(b) : last.t - b[i] < time_window
           /\ requests[d] = b
           /\ DOMAIN requests = DOMAIN last.before \cup {d}
           /\ \A x \in DOMAIN last.before : requests[x] = last.before[x]
           /\ d \notin DOMAIN last.before => requests[d] = <<>>

\* C23 witness: a denied call made after time has passed since the domain's
\* timestamps were recorded, with another domain's timestamps already out of
\* its window: nothing was pruned anywhere.
C23_Witness ==
    /\ last.op = "can_make_request"
    /\ last.result = FALSE
    /\ max_requests = 2
    /\ Len(Entry(last.before, last.domain)) = 2
    /\ last.t > last.before[last.domain][2]
    /\ \E x \in DOMAIN last.before :
          /\ x # last.domain
          /\ last.before[x] # <<>>
          /\ last.t - last.before[x][1] >= time_window

\* the calls of can_make_request(d) before the i-th that were admitted less
\* than time_window before it
AdmittedBeforeCall(d, i) ==
    {j \in 1..(i - 1) :
        calls[d][j].r /\ calls[d][i].t - calls[d][j].t < time_window}

\* the time at which the oldest of these calls leaves the window
SlotFreeAt(d, i) ==
    time_window + (CHOOSE m \in {calls[d][j].t : j \in AdmittedBeforeCall(d, i)} :
                      \A j \in AdmittedBeforeCall(d, i) : m <= calls[d][j].t)

\* C24: with max_requests >= 1, when can_make_request(d) is denied at time t
\* and g is get_wait_time(d) at that time, g > 0, every later
\* can_make_request(d) before t + g is denied and the first one at or after
\* t + g is admitted.
C24_WaitTimeExact ==
    max_requests >= 1 =>
        \A d \in Domains : \A i \in 1..Len(calls[d]) :
            ~calls[d][i].r =>
                /\ AdmittedBeforeCall(d, i) # {}
                /\ LET t == calls[d][i].t
                       g == SlotFreeAt(d, i) - t
                   IN /\ g > 0
                      /\ (/\ last.op = "get_wait_time"
                          /\ last.domain = d
                          /\ last.t = t
                          /\ i = Len(calls[d])) => last.result = g
                      /\ \A k \in (i + 1)..Len(calls[d]) :
                            /\ calls[d][k].t < t + g => ~calls[d][k].r
                            /\ (/\ calls[d][k].t >= t + g
                                /\ \A m \in (i + 1)..(k - 1) : calls[d][m].t < t + g)
                               => calls[d][k].r

\* C24 witness: with max_requests = 1 and a window of 3, a.com was admitted
\* at 0 and denied at 1 (wait time 2), denied again at 2, and admitted at 3.
C24_Witness ==
    /\ max_requests = 1
    /\ time_window = 3
    /\ calls["a.com"] = <<[t |-> 0, r |-> TRUE], [t |-> 1, r |-> FALSE],
                          [t |-> 2, r |-> FALSE], [t |-> 3, r |-> TRUE]>>

\* C24 witness of the wait time itself: get_wait_time asked right after a
\* denial, two seconds after the oldest of two admissions, answers 1.
C24_WitnessWait ==
    /\ last.op = "get_wait_time"
    /\ max_requests = 2
    /\ time_window = 3
    /\ calls[last.domain] # <<>>
    /\ ~calls[last.domain][Len(calls[last.domain])].r
    /\ calls[last.domain][Len(calls[last.domain])].t = last.t
    /\ last.result = 1

----------------------------------------------------------------------------
(* fetch_url coroutines running concurrently on one WebScraper under asyncio:
   a task runs without interruption from one await to the next, and the only
   await of fetch_url before its return is await self.session.get(url) *)

TaskIds == {1, 2, 3}
MaxTaskFetches == 3     \* fetch_url calls made by the tasks together

TaskIdle == [pc |-> "idle", url |-> <<>>]

\* a scraper is built and the tasks are created
InitTasks ==
    /\ max_requests \in 0..MaxRequests
    /\ time_window = TimeWindowScraper
    /\ requests = <<>>
    /\ now = 0
    /\ last = NoCall
    /\ calls = [d \in Domains |-> <<>>]
    /\ wait_seen = [d \in Domains |-> NoWait]
    /\ BatchIdle
    /\ ThreadsIdle
    /\ served = <<>>
    /\ tool_result = NoToolResult
    /\ tasks = [k \in TaskIds |-> TaskIdle]
    /\ hume = HumeIdle

\* mutant of RequestsBeforeAwait: the admission is not recorded by the time
\* the task is suspended
RequestsBeforeAwaitStale(f, reqs) == reqs

\* the limiter state when the task reaches its first await: everything
\* can_make_request and get_wait_time did, the append included
RequestsBeforeAwait(f, reqs) == f.requests

\* task k calls fetch_url(url) and runs to its first await, or to its return
\* when the url is invalid or rate limited
TaskBegin(k, url) ==
    /\ tasks[k].pc = "idle"
    /\ Len(served) < MaxTaskFetches
    /\ LET f == FetchUrl(requests, url, now, NoResponse)
       IN /\ requests' = RequestsBeforeAwait(f, requests)
          /\ served' = Append(served, ServedEntry(url, now, f))
          /\ tasks' = [tasks EXCEPT ![k] =
                          IF f.http_gets = 1
                          THEN [pc |-> "awaiting", url |-> url]
                          ELSE TaskIdle]
    /\ UNCHANGED <<max_requests, time_window, now, history_vars, batch_vars,
                   thread_vars, tool_result, hume>>

\* the response of task k arrives; the task runs to its return
TaskResume(k, resp) ==
    /\ tasks[k].pc = "awaiting"
    /\ tasks' = [tasks EXCEPT ![k] = TaskIdle]
    /\ tool_result' = [tool |-> "fetch_url", urls |-> <<>>, results |-> <<>>,
                       response |-> [kind |-> IF IsErrorResult(
                                                   HandleResponse(tasks[k].url, resp).value)
                                                THEN "error" ELSE "content"]]
    /\ UNCHANGED <<limiter_vars, history_vars, batch_vars, thread_vars,
                   served, hume>>

\* time passes while tasks are suspended or idle
TaskTick ==
    /\ now < MaxServerTime
    /\ now' = now + 1
    /\ UNCHANGED <<max_requests, time_window, requests, history_vars, batch_vars,
                   thread_vars, server_vars>>

NextTasks ==
    \/ TaskTick
    \/ \E k \in TaskIds, url \in WindowUrls : TaskBegin(k, url)
    \/ \E k \in TaskIds, resp \in SeqResponses : TaskResume(k, resp)

SpecTasks == InitTasks /\ [][NextTasks]_vars

----------------------------------------------------------------------------
(* Properties of concurrent fetch_url tasks, checked under SpecTasks *)

\* the tasks suspended on a request to domain d
AwaitingOn(d) ==
    {k \in TaskIds : tasks[k].pc = "awaiting" /\ extract_domain(tasks[k].url) = d}

\* C25: under asyncio scheduling, fetch_url coroutines running concurrently on
\* one WebScraper never have more than max_requests requests admitted for a
\* domain within one time window; in particular never more than max_requests
\* of them are suspended on a request to the same domain.
C25_TasksRespectLimit ==
    \A d \in Domains :
        /\ \A t \in 0..now : Cardinality(AdmittedInWindow(d, t)) <= max_requests
        /\ Cardinality(AwaitingOn(d)) <= max_requests

\* C25 witness: with max_requests = 2, two tasks are suspended on requests to
\* a.com, and the third task's request to a.com, made meanwhile, was denied.
C25_Witness ==
    /\ max_requests = 2
    /\ Cardinality(AwaitingOn("a.com")) = 2
    /\ Len(served) = 3
    /\ served[3].domain = "a.com"
    /\ served[3].limited
    /\ \E k \in TaskIds : tasks[k].pc = "idle"

----------------------------------------------------------------------------
(* Further properties of fetch_url, checked under SpecFetch *)

\* C26: a rate-limit slot is consumed at admission, not at success. A
\* fetch_url call that reached session.get has its timestamp recorded as the
\* newest of its domain whatever became of the request (HTTP error, other
\* exception, unsupported content type, processing error, success), so it
\* counts against the limit; a call rejected as 'Invalid URL format' leaves
\* the limiter exactly as it was.
C26_SlotConsumedAtAdmission ==
    dispatched # NoDispatch =>
        LET d == extract_domain(dispatched.url)
            r == dispatched.out.value
        IN /\ dispatched.got =>
                /\ dispatched.url \notin MalformedUrls
                /\ Len(requests[d]) = Len(Entry(dispatched.before, d)) + 1
                /\ requests[d][Len(requests[d])] = now
                /\ InWindowCount(requests[d], now)
                      = InWindowCount(Entry(dispatched.before, d), now) + 1
           /\ (IsErrorResult(r) /\ r.error = "Invalid URL format") <=>
                  dispatched.url \in MalformedUrls
           /\ dispatched.url \in MalformedUrls =>
                  ~dispatched.got /\ requests = dispatched.before

\* C26 witness: with max_requests = 1 the only slot of a.com went to a request
\* that ended in an HTTP error; the domain is full now.
C26_Witness ==
    /\ max_requests = 1
    /\ dispatched.got
    /\ dispatched.resp.outcome = "http_error"
    /\ IsErrorResult(dispatched.out.value)
    /\ dispatched.before = <<>>
    /\ requests = [x \in {extract_domain(dispatched.url)} |-> <<now>>]
    /\ ~CanMakeRequestResult(requests, extract_domain(dispatched.url), now)

\* C26 witness of the invalid url: rejected with two timestamps on record,
\* which are all still there.
C26_WitnessInvalid ==
    /\ dispatched.url \in MalformedUrls
    /\ dispatched.out.value.error = "Invalid URL format"
    /\ SeqSum(requests) = 2
    /\ requests = dispatched.before

\* C27: the PDF test comes first and is a substring test. Whenever the
\* content type contains "pdf" or the url contains "pdf" anywhere, in any
\* case, in the host or in the path, a retrieved response is handled by the
\* PDF branch, also when the declared content type is HTML, text or anything
\* else.
C27_PdfTestFirst ==
    (/\ Retrieved
     /\ \/ dispatched.url \in PdfUrls
        \/ dispatched.resp.content_type \in DeclaredPdf) =>
        /\ PdfBranch(dispatched.out.value)
        /\ ~HtmlBranch(dispatched.out.value)
        /\ ~Unsupported(dispatched.out.value)

\* C27 witness: http://pdf.com/1, whose host contains "pdf", answered with
\* text/html, was handled as a PDF.
C27_Witness ==
    /\ Retrieved
    /\ dispatched.url = <<"http", ":", "//", "pdf.com", "/1">>
    /\ dispatched.resp.content_type = HtmlType
    /\ dispatched.resp.processed
    /\ dispatched.out.value.content_type = "pdf"

----------------------------------------------------------------------------
(* Properties of the batch_fetch_urls tool, checked under SpecTool *)

\* C28: the batch_fetch_urls tool never raises. Called with an empty list it
\* returns the error string 'Error in batch fetch: ...' and no summary; called
\* with a non-empty list it returns a summary of that many urls.
C28_BatchToolNeverRaises ==
    tool_result.tool = "batch_fetch_urls" =>
        /\ tool_result.response.kind \in {"summary", "error"}
        /\ tool_result.urls = <<>> =>
              tool_result.response = [kind |-> "error", text |-> "Error in batch fetch"]
        /\ tool_result.urls # <<>> =>
              /\ tool_result.response.kind = "summary"
              /\ tool_result.response.total = Len(tool_result.urls)

\* C28 witness: the tool was called with the empty list after another tool
\* call, fetched nothing, and answered with the error string.
C28_Witness ==
    /\ tool_result.tool = "batch_fetch_urls"
    /\ tool_result.urls = <<>>
    /\ tool_result.results = <<>>
    /\ tool_result.response.kind = "error"
    /\ Len(served) = 1

\* a success record, an error record
SuccessRecord(r) ==
    /\ "status" \in DOMAIN r
    /\ r.status = "success"
    /\ "error" \notin DOMAIN r
ErrorRecord(r) == "error" \in DOMAIN r /\ "status" \notin DOMAIN r

\* C29: every result of fetch_url is either a success record (status
\* 'success', no error key) or an error record (error key, no status key),
\* never both and never neither; in the summary of the batch_fetch_urls tool
\* Successful and Failed count these two kinds and add up to Total URLs.
C29_SuccessXorError ==
    tool_result.tool \in {"batch_fetch_urls", "fetch_url_content"} =>
        LET rs == tool_result.results
            ok == {i \in 1..Len(rs) : SuccessRecord(rs[i])}
            failed == {i \in 1..Len(rs) : ErrorRecord(rs[i])}
        IN /\ ok \cup failed = 1..Len(rs)
           /\ ok \cap failed = {}
           /\ tool_result.response.kind = "summary" =>
                 /\ tool_result.response.successful = Cardinality(ok)
                 /\ tool_result.response.failed = Cardinality(failed)
                 /\ tool_result.response.successful + tool_result.response.failed
                       = tool_result.response.total

\* C29 witness: a batch of a plain url, a url containing "pdf" and a malformed
\* url, every request answered with image/png: one success (the PDF branch),
\* two failures (unsupported content type, invalid url), three urls.
C29_Witness ==
    /\ tool_result.tool = "batch_fetch_urls"
    /\ tool_result.response.kind = "summary"
    /\ tool_result.response.total = 3
    /\ tool_result.response.successful = 1
    /\ tool_result.response.failed = 2
    /\ \E i \in 1..3 : /\ IsErrorResult(tool_result.results[i])
                       /\ tool_result.results[i].error = "Unsupported content type"
    /\ \E i \in 1..3 : /\ IsErrorResult(tool_result.results[i])
                       /\ tool_result.results[i].error = "Invalid URL format"

----------------------------------------------------------------------------
(* AudioProcessor.detect_emotions (src/audio-mcp/audio_processor.py): the job
   is posted to the Hume API and its status is polled *)

MaxAttempts == 30       \* max_attempts = 30
PollPause == 2          \* asyncio.sleep(2)

\* what the POST that creates the job can come to, what a status poll can be
\* answered with, and what the request for the predictions can be answered with
CreateAnswers == {"job_id", "no_job_id", "not_200", "exception"}
PollAnswers == {"not_200", "QUEUED", "IN_PROGRESS", "COMPLETED", "FAILED",
                "exception"}
ResultAnswers == {"200", "not_200", "exception"}

HumeDone(h, result) == [h EXCEPT !.pc = "done", !.result = result]

\* the audio server alone: detect_emotions has not been called
InitHume == InitServer

\* response = await client.post(...); job_id = job_data.get("job_id")
HumeCreate(answer) ==
    /\ hume.pc = "idle"
    /\ hume' = CASE answer = "job_id" -> [hume EXCEPT !.pc = "pause"]
                 [] answer = "no_job_id" ->
                        HumeDone(hume, "Failed to get job ID from Hume API")
                 [] answer = "not_200" -> HumeDone(hume, "Hume API error")
                 [] OTHER -> HumeDone(hume, "exception")
    /\ UNCHANGED <<limiter_vars, history_vars, batch_vars, thread_vars,
                   served, tool_result, tasks>>

\* for attempt in range(max_attempts): await asyncio.sleep(2)
HumePause ==
    /\ hume.pc = "pause"
    /\ hume.attempt < MaxAttempts
    /\ hume' = [hume EXCEPT !.pc = "poll", !.pauses = @ + 1]
    /\ now' = now + PollPause
    /\ UNCHANGED <<max_requests, time_window, requests, history_vars, batch_vars,
                   thread_vars, served, tool_result, tasks>>

\* mutant of NextAttempt: a poll that is skipped does not count
NextAttemptUncounted(attempt) == attempt

\* the loop variable after "continue" or the end of the loop body
NextAttempt(attempt) == attempt + 1

\* status_response = await client.get(.../jobs/{job_id}) and the tests on it
HumePoll(answer) ==
    /\ hume.pc = "poll"
    /\ LET polled == [hume EXCEPT !.polls = @ + 1, !.answer = answer]
       IN hume' = CASE answer \in {"not_200", "QUEUED", "IN_PROGRESS"} ->
                          [polled EXCEPT !.pc = "pause",
                                         !.attempt = NextAttempt(@)]
                    [] answer = "COMPLETED" -> [polled EXCEPT !.pc = "results"]
                    [] answer = "FAILED" -> HumeDone(polled, "Hume API job failed")
                    [] OTHER -> HumeDone(polled, "exception")
    /\ UNCHANGED <<limiter_vars, history_vars, batch_vars, thread_vars,
                   served, tool_result, tasks>>

\* results_response = await client.get(.../predictions)
HumeResults(answer) ==
    /\ hume.pc = "results"
    /\ hume' = CASE answer = "200" -> HumeDone(hume, "processed results")
                 [] answer = "not_200" -> HumeDone(hume, "Failed to get results")
                 [] OTHER -> HumeDone(hume, "exception")
    /\ UNCHANGED <<limiter_vars, history_vars, batch_vars, thread_vars,
                   served, tool_result, tasks>>

\* the loop has run max_attempts times
HumeTimeout ==
    /\ hume.pc = "pause"
    /\ hume.attempt >= MaxAttempts
    /\ hume' = HumeDone(hume, "Timeout waiting for Hume API results")
    /\ UNCHANGED <<limiter_vars, history_vars, batch_vars, thread_vars,
                   served, tool_result, tasks>>

NextHume ==
    \/ \E answer \in CreateAnswers : HumeCreate(answer)
    \/ HumePause
    \/ \E answer \in PollAnswers : HumePoll(answer)
    \/ \E answer \in ResultAnswers : HumeResults(answer)
    \/ HumeTimeout

\* every request is answered or times out (httpx.AsyncClient(timeout=60.0)),
\* and every sleep ends: the coroutine always takes its next step
SpecHume == InitHume /\ [][NextHume]_vars /\ WF_vars(NextHume)

----------------------------------------------------------------------------
(* Properties of detect_emotions, checked under SpecHume *)

\* the job exists and the polling loop has been entered
JobCreated == hume.pc \in {"pause", "poll", "results"} \/ hume.pauses > 0

\* what holds at every moment of the polling loop: at most 30 polls, each
\* preceded by its own pause of 2 seconds; polling goes on only while no
\* terminal state was reported; the value returned is the one the last poll
\* calls for, and the timeout error needs 30 polls without a terminal state
PollingInvariant ==
    JobCreated =>
        /\ hume.polls <= MaxAttempts
        /\ hume.pauses = hume.polls + (IF hume.pc = "poll" THEN 1 ELSE 0)
        /\ now = PollPause * hume.pauses
        /\ hume.pc \in {"pause", "poll"} =>
              /\ hume.attempt = hume.polls
              /\ hume.answer \in {"none", "not_200", "QUEUED", "IN_PROGRESS"}
        /\ hume.pc = "results" => hume.answer = "COMPLETED"
        /\ hume.pc = "done" =>
              /\ hume.polls >= 1 \/ hume.result = "Timeout waiting for Hume API results"
              /\ hume.result \in {"processed results", "Failed to get results"}
                    <=> (hume.answer = "COMPLETED" /\ hume.result # "exception")
              /\ hume.result = "Hume API job failed" <=> hume.answer = "FAILED"
              /\ hume.result = "Timeout waiting for Hume API results"
                    <=> (/\ hume.polls = MaxAttempts
                         /\ hume.answer \in {"not_200", "QUEUED", "IN_PROGRESS"})
              /\ hume.result = "exception" => hume.answer \in {"exception", "COMPLETED"}

====
